---- MODULE Spec2Model ----
(***************************************************************************)
(* Line-art / coloring-page generator of service.py: the two route         *)
(* handlers coloring_xdog (Variant A) and coloring_hf (Variant B).         *)
(*                                                                         *)
(* One request is handled at a time, statement group by statement group.   *)
(* Form values are character sequences (one-character strings), so that    *)
(* int() and str().lower() are computed and not assumed.                   *)
(*                                                                         *)
(* Two-level images are kept sparsely: a shape (h, w), a background value  *)
(* bg and a finite map fg from the pixels that differ from bg to their     *)
(* values.  Every pixel operation of the handlers (bitwise_not,            *)
(* bitwise_and, bitwise_or, erode, dilate, morphologyEx, mean) is computed *)
(* exactly on this representation for images of any size.  The outputs of  *)
(* the library detectors whose inputs are colour or grey images (Canny,    *)
(* adaptiveThreshold, kmeans, findContours, drawContours) are chosen       *)
(* nondeterministically among two-level results whose foreground lies in   *)
(* the top-left Window of the image.                                       *)
(***************************************************************************)
EXTENDS Integers, Sequences, FiniteSets, TLC

(* ------------------------------ bounds -------------------------------- *)
\* a request's form holds at most this many fields
MaxFields == 1
\* a detector marks at most this many pixels of the Window
MaxInk == 2
\* findContours returns at most this many contours over the four thresholds
MaxContours == 1

(* --------------------------- form tokens ------------------------------ *)
Digits == <<"0", "1", "2", "3", "4", "5", "6", "7", "8", "9">>
UpperCase == <<"A", "B", "C", "D", "E", "F", "G", "H", "I", "J", "K", "L", "M",
               "N", "O", "P", "Q", "R", "S", "T", "U", "V", "W", "X", "Y", "Z">>
LowerCase == <<"a", "b", "c", "d", "e", "f", "g", "h", "i", "j", "k", "l", "m",
               "n", "o", "p", "q", "r", "s", "t", "u", "v", "w", "x", "y", "z">>

IsDigit(c) == \E i \in 1..10 : Digits[i] = c
DigitVal(c) == (CHOOSE i \in 1..10 : Digits[i] = c) - 1

RECURSIVE DigitsVal(_)
DigitsVal(s) ==
    IF s = <<>> THEN 0
    ELSE 10 * DigitsVal(SubSeq(s, 1, Len(s) - 1)) + DigitVal(s[Len(s)])

\* Python int(str): optional sign, then at least one decimal digit; anything
\* else raises ValueError (ok = FALSE).
IntOf(tok) ==
    LET signed == Len(tok) > 0 /\ tok[1] \in {"-", "+"}
        body == IF signed THEN Tail(tok) ELSE tok
        ok == body # <<>> /\ \A i \in 1..Len(body) : IsDigit(body[i])
    IN [ok |-> ok,
        val |-> IF ~ok THEN 0
                ELSE IF signed /\ tok[1] = "-" THEN 0 - DigitsVal(body)
                ELSE DigitsVal(body)]

\* str.lower() on one character and on a token
LowerChar(c) ==
    IF \E i \in 1..26 : UpperCase[i] = c
    THEN LowerCase[CHOOSE i \in 1..26 : UpperCase[i] = c]
    ELSE c
Lower(tok) == [i \in 1..Len(tok) |-> LowerChar(tok[i])]

\* str(None)
StrNone == <<"N", "o", "n", "e">>

(* ----------------------------- requests ------------------------------- *)
Variants == {"xdog", "hf"}

\* the int() form fields, in the order the handler parses them
ParseOrder(variant) ==
    IF variant = "xdog"
    THEN <<"resize_max", "bilateral_d", "bilateral_sigma_color",
           "bilateral_sigma_space", "k_clusters", "canny_low", "canny_high",
           "line_thickness", "min_area">>
    ELSE <<"k", "line_thickness", "min_area">>

\* the second argument of each request.form.get
Default(field) ==
    CASE field = "resize_max" -> 1024
      [] field = "bilateral_d" -> 9
      [] field = "bilateral_sigma_color" -> 75
      [] field = "bilateral_sigma_space" -> 75
      [] field = "k_clusters" -> 6
      [] field = "k" -> 6
      [] field = "canny_low" -> 50
      [] field = "canny_high" -> 150
      [] field = "line_thickness" -> 2
      [] field = "min_area" -> 300

Range(s) == {s[i] : i \in 1..Len(s)}
FormFields(variant) == Range(ParseOrder(variant)) \cup {"invert_colors"}

\* the values a client sends in each field
FieldTokens(field) ==
    CASE field = "resize_max" -> {<<"1">>, <<"2">>}
      [] field = "bilateral_d" -> {<<"x">>}
      [] field = "bilateral_sigma_color" -> {<<"1", "0">>}
      [] field = "bilateral_sigma_space" -> {<<>>}
      [] field = "k_clusters" -> {<<"1">>, <<"5", "0">>}
      [] field = "k" -> {<<"1">>, <<"5", "0">>}
      [] field = "canny_low" -> {<<"-", "7">>, <<"2", "0", "0">>}
      [] field = "canny_high" -> {<<"6", "0">>, <<"4", "0", "0">>}
      [] field = "line_thickness" -> {<<"1">>, <<"3">>}
      [] field = "min_area" -> {<<"0">>, <<"5", "0", "0">>}
      [] field = "invert_colors" ->
            {<<"1">>, <<"T", "r", "u", "e">>, <<"y", "E", "s">>, <<"Y">>,
             <<"o", "n">>}

AllTokens == UNION {FieldTokens(f) : f \in FormFields("xdog") \cup FormFields("hf")}

\* the forms clients send: at most MaxFields of the fields
Forms(variant) ==
    UNION {{f \in [D -> AllTokens] : \A n \in D : f[n] \in FieldTokens(n)} :
           D \in {S \in SUBSET FormFields(variant) : Cardinality(S) <= MaxFields}}

\* (h, w) of the rasters a client uploads
Shapes == {<<2, 3>>, <<1, 102>>, <<1000, 2000>>, <<1, 2000>>}

\* request.files: no 'image' part, a part with an empty filename, or a named
\* part whose bytes are empty, not a raster, or a raster of shape h x w
NoFile == [present |-> FALSE, filename |-> <<>>, kind |-> "empty", h |-> 0, w |-> 0]
Files ==
    {NoFile}
    \cup {[present |-> TRUE, filename |-> <<>>, kind |-> "image", h |-> 2, w |-> 3]}
    \cup {[present |-> TRUE, filename |-> <<"a">>, kind |-> k, h |-> 0, w |-> 0] :
             k \in {"empty", "garbage"}}
    \cup {[present |-> TRUE, filename |-> <<"a">>, kind |-> "image",
           h |-> s[1], w |-> s[2]] : s \in Shapes}

Requests(variant) ==
    {[variant |-> variant, file |-> f, form |-> fm] : f \in Files, fm \in Forms(variant)}

NoForm == [n \in {} |-> <<>>]
NoRequest == [variant |-> "xdog", file |-> NoFile, form |-> NoForm]

(* ------------------------------ images -------------------------------- *)
\* a single-channel uint8 array of shape (h, w): pixel p has value fg[p] when
\* p is in DOMAIN fg and bg otherwise; fg holds no entry equal to bg
MkImg(h, w, bg, f) ==
    [h |-> h, w |-> w, bg |-> bg,
     fg |-> [p \in {q \in DOMAIN f : f[q] # bg} |-> f[p]]]
NoPixels == [p \in {} |-> 0]
NoImg == [h |-> 0, w |-> 0, bg |-> 0, fg |-> NoPixels]

Pix(img, p) == IF p \in DOMAIN img.fg THEN img.fg[p] ELSE img.bg
InBounds(img, p) == p[1] \in 1..img.h /\ p[2] \in 1..img.w

\* the pixels a detector can mark: the top-left corner of the image
Window(h, w) == {p \in (1..2) \X (1..2) : p[1] <= h /\ p[2] <= w}
Marks(h, w) == {S \in SUBSET Window(h, w) : Cardinality(S) <= MaxInk}

\* uint8 bit operations, bit by bit
RECURSIVE BitAnd(_, _)
BitAnd(a, b) ==
    IF a = 0 \/ b = 0 THEN 0
    ELSE (a % 2) * (b % 2) + 2 * BitAnd(a \div 2, b \div 2)
RECURSIVE BitOr(_, _)
BitOr(a, b) ==
    IF a = 0 THEN b
    ELSE IF b = 0 THEN a
    ELSE (IF a % 2 = 1 \/ b % 2 = 1 THEN 1 ELSE 0) + 2 * BitOr(a \div 2, b \div 2)
RECURSIVE NotBits(_, _)
NotBits(a, n) == IF n = 0 THEN 0 ELSE (1 - (a % 2)) + 2 * NotBits(a \div 2, n - 1)
BitNot(a) == NotBits(a, 8)

\* cv2.bitwise_not, cv2.bitwise_and, cv2.bitwise_or
bitwise_not(a) ==
    MkImg(a.h, a.w, BitNot(a.bg), [p \in DOMAIN a.fg |-> BitNot(a.fg[p])])
\* mutant: the compositor uses OR
bitwise_and_AsOr(a, b) ==
    MkImg(a.h, a.w, BitOr(a.bg, b.bg),
          [p \in DOMAIN a.fg \cup DOMAIN b.fg |-> BitOr(Pix(a, p), Pix(b, p))])
bitwise_and(a, b) ==
    MkImg(a.h, a.w, BitAnd(a.bg, b.bg),
          [p \in DOMAIN a.fg \cup DOMAIN b.fg |-> BitAnd(Pix(a, p), Pix(b, p))])
bitwise_or(a, b) ==
    MkImg(a.h, a.w, BitOr(a.bg, b.bg),
          [p \in DOMAIN a.fg \cup DOMAIN b.fg |-> BitOr(Pix(a, p), Pix(b, p))])

\* morphology with an all-ones n x n element anchored at its centre (n div 2)
\* and the default border, which never wins the minimum or the maximum
Offsets(n) == (0 - (n \div 2))..(n - 1 - (n \div 2))
Nbhd(img, p, n) ==
    {q \in {<<p[1] + dr, p[2] + dc>> : dr \in Offsets(n), dc \in Offsets(n)} :
       InBounds(img, q)}
\* the pixels whose neighbourhood meets fg
Touched(img, n) ==
    {q \in {<<e[1] - d[1], e[2] - d[2]>> :
               e \in DOMAIN img.fg, d \in Offsets(n) \X Offsets(n)} :
       InBounds(img, q)}
SetMin(S) == CHOOSE x \in S : \A y \in S : x <= y
SetMax(S) == CHOOSE x \in S : \A y \in S : x >= y

\* cv2.erode (minimum filter) and cv2.dilate (maximum filter), iterations = 1
erode(img, n) ==
    MkImg(img.h, img.w, img.bg,
          [p \in Touched(img, n) |-> SetMin({Pix(img, q) : q \in Nbhd(img, p, n)})])
dilate(img, n) ==
    MkImg(img.h, img.w, img.bg,
          [p \in Touched(img, n) |-> SetMax({Pix(img, q) : q \in Nbhd(img, p, n)})])
\* cv2.morphologyEx with MORPH_OPEN and MORPH_CLOSE
morph_open(img, n) == CHOOSE r \in {dilate(e, n) : e \in {erode(img, n)}} : TRUE
morph_close(img, n) == CHOOSE r \in {erode(d, n) : d \in {dilate(img, n)}} : TRUE

\* ndarray.mean() as the exact fraction sum / count
RECURSIVE SumOver(_, _)
SumOver(f, S) ==
    IF S = {} THEN 0
    ELSE LET p == CHOOSE q \in S : TRUE IN f[p] + SumOver(f, S \ {p})
PixelSum(img) ==
    img.bg * (img.h * img.w - Cardinality(DOMAIN img.fg)) + SumOver(img.fg, DOMAIN img.fg)
PixelCount(img) == img.h * img.w

(* ------------------------- library detectors -------------------------- *)
\* cv2.Canny: 255 on the edge pixels S, 0 elsewhere
CannyOut(h, w, S) == MkImg(h, w, 0, [p \in S |-> 255])
\* cv2.adaptiveThreshold(..., THRESH_BINARY, ...): 0 on the pixels S that are
\* darker than their neighbourhood, 255 elsewhere
AdaptOut(h, w, S) == MkImg(h, w, 255, [p \in S |-> 0])

\* a contour of cv2.findContours: twice its cv2.contourArea (areas are
\* multiples of one half) and the pixels cv2.drawContours paints for its
\* approxPolyDP polygon
ContourPool(h, w) ==
    {[area2 |-> 600, ink |-> {p \in Window(h, w) : p[1] = 1}],
     [area2 |-> 601, ink |-> {p \in Window(h, w) : p[1] = 2 \/ h = 1}]}

Thresholds == <<50, 100, 150, 200>>

\* the results of the four findContours calls: pairs <<i, c>>, contour c found
\* at Thresholds[i]
RECURSIVE Picks(_, _)
Picks(n, U) ==
    IF n = 0 THEN {{}}
    ELSE Picks(n - 1, U) \cup {S \cup {x} : S \in Picks(n - 1, U), x \in U}
FoundSets(h, w) == Picks(MaxContours, (1..Len(Thresholds)) \X ContourPool(h, w))

(* --------------------------- handler steps ---------------------------- *)
Max(a, b) == IF a >= b THEN a ELSE b
Min(a, b) == IF a <= b THEN a ELSE b

\* int(request.form.get(field, default))
FormInt(form, field) ==
    IF field \in DOMAIN form THEN IntOf(form[field])
    ELSE [ok |-> TRUE, val |-> Default(field)]

\* mutant: the empty-filename test is missing
MissingInput_NoNameTest(r) == ~r.file.present
\* 'image' not in request.files, or file.filename == ''
MissingInput(r) == ~r.file.present \/ r.file.filename = <<>>

\* mutant: the lower clamp is missing
ClampK_NoFloor(k) == Min(12, k)
\* kq = max(2, min(12, k_clusters))
ClampK(k) == Max(2, Min(12, k))

\* the resize bound: resize_max in coloring_xdog, 1200 in coloring_hf
ResizeBound(variant, p) == IF variant = "xdog" THEN p["resize_max"] ELSE 1200

\* int(x * scale) with scale = bound / float(max_dim), for x, bound >= 0: the
\* exact quotient, which is what the double arithmetic yields for every shape
\* and bound of this model
Scaled(x, bound, max_dim) == (x * bound) \div max_dim

\* mutant: the canvas of ones is not scaled to 255
BlankCanvas_Ones(h, w) == MkImg(h, w, 1, NoPixels)
\* np.ones_like(quant_gray) * 255
BlankCanvas(h, w) == MkImg(h, w, (1 * 255) % 256, NoPixels)

\* mutant: the area test is reversed
KeepContour_Reversed(c, min_area) == c.area2 < 2 * min_area
\* cv2.contourArea(cnt) > min_area
KeepContour(c, min_area) == c.area2 > 2 * min_area

\* cv2.drawContours(canvas, [approx], -1, 0, line_thickness)
drawContours(cv, c) ==
    MkImg(cv.h, cv.w, cv.bg,
          [p \in DOMAIN cv.fg \cup c.ink |-> IF p \in c.ink THEN 0 ELSE cv.fg[p]])
RECURSIVE DrawAll(_, _)
DrawAll(cv, S) ==
    IF S = {} THEN cv
    ELSE LET x == CHOOSE y \in S : TRUE IN DrawAll(drawContours(cv, x[2]), S \ {x})

\* mutant: the comparison with 250 is not strict
MostlyWhite_NotStrict(img) == PixelSum(img) >= 250 * PixelCount(img)
\* mean_val > 250
MostlyWhite(img) == PixelSum(img) > 250 * PixelCount(img)

\* max(10, canny_low // 2), max(50, canny_high // 2), max(1, line_thickness)
FallbackLow(canny_low) == Max(10, canny_low \div 2)
FallbackHigh(canny_high) == Max(50, canny_high \div 2)
FallbackSide(line_thickness) == Max(1, line_thickness)

\* str(invert_colors).lower() in ('1', 'true', 'yes', 'y')
TruthyTokens == {<<"1">>, <<"t", "r", "u", "e">>, <<"y", "e", "s">>, <<"y">>}
InvertToken(form) ==
    IF "invert_colors" \in DOMAIN form THEN form["invert_colors"] ELSE StrNone
\* mutant: .lower() is missing
InvertRequested_NoLower(form) == InvertToken(form) \in TruthyTokens
InvertRequested(form) == Lower(InvertToken(form)) \in TruthyTokens

\* jsonify({'error': ...}), status  and  send_file(buf, mimetype='image/png')
JsonError(status, text) ==
    [status |-> status, mimetype |-> "application/json", error |-> text, image |-> NoImg]
PngFile(img) ==
    [status |-> 200, mimetype |-> "image/png", error |-> "", image |-> img]

(* ------------------------------- state -------------------------------- *)
VARIABLES pc, req, params, shape, edges, canvas, combined, found, drawn,
          kq, palette, fb, ran, raised, responses, seed, rng

vars == <<pc, req, params, shape, edges, canvas, combined, found, drawn,
          kq, palette, fb, ran, raised, responses, seed, rng>>

\* cv2.kmeans(..., cv2.KMEANS_RANDOM_CENTERS) draws its initial centers from
\* cv::theRNG(), the generator OpenCV keeps for each thread; the handlers
\* never call cv2.setRNGSeed.  rng is the state of the generator of the
\* worker thread: "default" is the state of a newly created generator,
\* "advanced" any state reached after centers were drawn from it.  seed is
\* the state cv2.kmeans started from in the current call.
DefaultRNG == "default"
AdvanceRNG(state) == "advanced"
NoSeed == "none"

NoParams == [n \in {} |-> 0]
NoFb == [taken |-> FALSE, low |-> 0, high |-> 0, side |-> 0]

Locals0 ==
    /\ params = NoParams
    /\ shape = <<0, 0>>
    /\ edges = NoImg
    /\ canvas = NoImg
    /\ combined = NoImg
    /\ found = {}
    /\ drawn = {}
    /\ kq = 0
    /\ palette = 0
    /\ fb = NoFb
    /\ ran = <<>>
    /\ raised = ""
    /\ responses = <<>>
    /\ seed = NoSeed

Init == pc = "idle" /\ req = NoRequest /\ Locals0 /\ rng = DefaultRNG

\* the handler's frame is gone: none of its locals exists any more
DropLocals ==
    /\ params' = NoParams
    /\ shape' = <<0, 0>>
    /\ edges' = NoImg
    /\ canvas' = NoImg
    /\ combined' = NoImg
    /\ found' = {}
    /\ drawn' = {}
    /\ kq' = 0
    /\ palette' = 0
    /\ fb' = NoFb
    /\ seed' = NoSeed

\* return a response: the call is over
Return(r) == responses' = Append(responses, r) /\ pc' = "done" /\ DropLocals
\* mutant: the except clause answers with a client error
Raise_ClientError(text) == raised' = text /\ Return(JsonError(400, text))
\* except Exception as e: return jsonify({'error': str(e)}), 500
Raise(text) == raised' = text /\ Return(JsonError(500, text))
\* fall through to the next statement group
Goto(next) == pc' = next /\ UNCHANGED <<raised, responses>>

\* a client posts a request to one of the two routes
Receive ==
    /\ pc = "idle"
    /\ \E v \in Variants : \E r \in Requests(v) : req' = r
    /\ pc' = "check"
    /\ UNCHANGED <<params, shape, edges, canvas, combined, found, drawn, kq,
                   palette, fb, ran, raised, responses, seed, rng>>

\* 'image' not in request.files / file.filename == ''
CheckInput ==
    /\ pc = "check"
    /\ IF ~req.file.present
       THEN Return(JsonError(400, "No image file provided")) /\ UNCHANGED raised
       ELSE IF MissingInput(req)
       THEN Return(JsonError(400, "No image file selected")) /\ UNCHANGED raised
       ELSE /\ Goto("parse")
            /\ UNCHANGED <<params, shape, edges, canvas, combined, found, drawn,
                           kq, palette, fb, seed>>
    /\ UNCHANGED <<req, ran>>
    /\ UNCHANGED rng

\* the int(request.form.get(...)) lines, in order; a bad one raises ValueError
ParseParams ==
    /\ pc = "parse"
    /\ ran' = Append(ran, "parse")
    /\ LET order == ParseOrder(req.variant)
       IN IF \E i \in 1..Len(order) : ~FormInt(req.form, order[i]).ok
          THEN Raise("invalid literal for int() with base 10")
          ELSE /\ params' = [n \in Range(order) |-> FormInt(req.form, n).val]
               /\ Goto("decode")
               /\ UNCHANGED <<shape, edges, canvas, combined, found, drawn, kq,
                              palette, fb, seed>>
    /\ UNCHANGED req
    /\ UNCHANGED rng

\* file.read(), np.frombuffer, cv2.imdecode, img is None
Decode ==
    /\ pc = "decode"
    /\ ran' = Append(ran, "decode")
    /\ CASE req.file.kind = "empty" ->
              \* cv2.imdecode asserts !buf.empty()
              Raise("imdecode_: !buf.empty()")
         [] req.file.kind = "garbage" ->
              Return(JsonError(400, "Invalid image format")) /\ UNCHANGED raised
         [] req.file.kind = "image" ->
              /\ shape' = <<req.file.h, req.file.w>>
              /\ Goto("resize")
              /\ UNCHANGED <<params, edges, canvas, combined, found, drawn, kq,
                             palette, fb, seed>>
    /\ UNCHANGED req
    /\ UNCHANGED rng

\* h, w = img.shape[:2]; if max_dim > bound: img = cv2.resize(img, (int(w*scale),
\* int(h*scale))), which asserts that neither side of the new size is 0
Resize ==
    /\ pc = "resize"
    /\ ran' = Append(ran, "resize")
    /\ LET h == shape[1]
           w == shape[2]
           max_dim == Max(h, w)
           bound == ResizeBound(req.variant, params)
           nw == Scaled(w, bound, max_dim)
           nh == Scaled(h, bound, max_dim)
       IN IF max_dim > bound /\ (nw <= 0 \/ nh <= 0)
          THEN Raise("resize: inv_scale_x > 0")
          ELSE /\ shape' = IF max_dim > bound THEN <<nh, nw>> ELSE shape
               /\ Goto("smooth")
               /\ UNCHANGED <<params, edges, canvas, combined, found, drawn, kq,
                              palette, fb, seed>>
    /\ UNCHANGED req
    /\ UNCHANGED rng

\* cv2.bilateralFilter / cv2.pyrMeanShiftFiltering: same shape
Smooth ==
    /\ pc = "smooth"
    /\ ran' = Append(ran, "smooth")
    /\ Goto("edges")
    /\ UNCHANGED <<req, params, shape, edges, canvas, combined, found, drawn,
                   kq, palette, fb, seed>>
    /\ UNCHANGED rng

\* coloring_xdog: Sobel magnitude, Canny, bitwise_not
\* coloring_hf: medianBlur, adaptiveThreshold | Canny, bitwise_not, close, dilate
ExtractEdges ==
    /\ pc = "edges"
    /\ ran' = Append(ran, "edges")
    /\ Goto("quantize")
    /\ LET h == shape[1]
           w == shape[2]
       IN IF req.variant = "xdog"
          THEN \E S \in Marks(h, w) :
                 \E edges_canny \in {CannyOut(h, w, S)} :
                   edges' = bitwise_not(edges_canny)
          ELSE \E Sa \in Marks(h, w), Sc \in Marks(h, w) :
                 \E e1 \in {bitwise_or(AdaptOut(h, w, Sa), CannyOut(h, w, Sc))} :
                   \E e2 \in {bitwise_not(e1)} :
                     \E e3 \in {morph_close(e2, 2)} :
                       edges' = dilate(e3, 2)
    /\ UNCHANGED <<req, params, shape, canvas, combined, found, drawn, kq,
                   palette, fb, seed>>
    /\ UNCHANGED rng

\* kq = max(2, min(12, k)); cv2.kmeans(Z, kq, ...) asserts N >= K, draws the
\* initial centers of its attempts from the thread's generator, and returns
\* kq centers
Quantize ==
    /\ pc = "quantize"
    /\ ran' = Append(ran, "quantize")
    /\ LET k == IF req.variant = "xdog" THEN params["k_clusters"] ELSE params["k"]
       IN IF shape[1] * shape[2] < ClampK(k)
          THEN Raise("kmeans: N >= K") /\ UNCHANGED rng
          ELSE /\ kq' = ClampK(k)
               /\ palette' = ClampK(k)
               /\ seed' = rng
               /\ rng' = AdvanceRNG(rng)
               /\ Goto("contours")
               /\ UNCHANGED <<params, shape, edges, canvas, combined, found,
                              drawn, fb>>
    /\ UNCHANGED req

\* canvas = ones_like * 255; for each threshold: threshold, close,
\* findContours, and drawContours for each contour whose area exceeds min_area
DrawContours ==
    /\ pc = "contours"
    /\ ran' = Append(ran, "contours")
    /\ Goto("combine")
    /\ \E F \in FoundSets(shape[1], shape[2]) :
         /\ found' = F
         /\ drawn' = {x \in F : KeepContour(x[2], params["min_area"])}
         /\ canvas' = DrawAll(BlankCanvas(shape[1], shape[2]),
                              {x \in F : KeepContour(x[2], params["min_area"])})
    /\ UNCHANGED <<req, params, shape, edges, combined, kq, palette, fb, seed>>
    /\ UNCHANGED rng

\* combined = cv2.bitwise_and(canvas, edges); the contour lists are not
\* read again
Combine ==
    /\ pc = "combine"
    /\ ran' = Append(ran, "combine")
    /\ Goto(IF req.variant = "xdog" THEN "open" ELSE "close")
    /\ combined' = bitwise_and(canvas, edges)
    /\ found' = {}
    /\ drawn' = {}
    /\ UNCHANGED <<req, params, shape, edges, canvas, kq, palette, fb, seed>>
    /\ UNCHANGED rng

\* coloring_xdog: combined = morphologyEx(combined, MORPH_OPEN, ones((3,3)));
\* canvas and edges_canny are not read again
Open ==
    /\ pc = "open"
    /\ ran' = Append(ran, "open")
    /\ Goto("dilate")
    /\ combined' = morph_open(combined, 3)
    /\ edges' = NoImg
    /\ canvas' = NoImg
    /\ UNCHANGED <<req, params, shape, found, drawn, kq, palette, fb, seed>>
    /\ UNCHANGED rng

\* coloring_xdog: if line_thickness > 1: combined = dilate(combined, ones((lt, lt)))
Dilate ==
    /\ pc = "dilate"
    /\ ran' = Append(ran, "dilate")
    /\ Goto("close")
    /\ combined' = IF params["line_thickness"] > 1
                   THEN dilate(combined, params["line_thickness"])
                   ELSE combined
    /\ UNCHANGED <<req, params, shape, edges, canvas, found, drawn, kq, palette, fb, seed>>
    /\ UNCHANGED rng

\* coloring_xdog: morphologyEx(combined, MORPH_CLOSE, ones((3,3)))
\* coloring_hf:   morphologyEx(final, MORPH_CLOSE, ones((2,2)))
Close ==
    /\ pc = "close"
    /\ ran' = Append(ran, "close")
    /\ Goto(IF req.variant = "xdog" THEN "fallback" ELSE "invert")
    /\ combined' = morph_close(combined, IF req.variant = "xdog" THEN 3 ELSE 2)
    /\ edges' = NoImg
    /\ canvas' = NoImg
    /\ UNCHANGED <<req, params, shape, found, drawn, kq, palette, fb, seed>>
    /\ UNCHANGED rng

\* coloring_xdog: if mean_val > 250: Canny of the median-blurred gray with
\* halved thresholds, bitwise_not, dilate
FallbackGuard ==
    /\ pc = "fallback"
    /\ ran' = Append(ran, "fallback")
    /\ Goto("invert")
    /\ IF MostlyWhite(combined)
       THEN \E S \in Marks(shape[1], shape[2]) :
              /\ fb' = [taken |-> TRUE,
                        low |-> FallbackLow(params["canny_low"]),
                        high |-> FallbackHigh(params["canny_high"]),
                        side |-> FallbackSide(params["line_thickness"])]
              /\ \E fb1 \in {bitwise_not(CannyOut(shape[1], shape[2], S))} :
                   combined' = dilate(fb1, FallbackSide(params["line_thickness"]))
       ELSE UNCHANGED <<fb, combined>>
    /\ UNCHANGED <<req, params, shape, edges, canvas, found, drawn, kq, palette, seed>>
    /\ UNCHANGED rng

\* if str(invert_colors).lower() in (...): combined = cv2.bitwise_not(combined)
Invert ==
    /\ pc = "invert"
    /\ ran' = Append(ran, "invert")
    /\ Goto("encode")
    /\ combined' = IF InvertRequested(req.form) THEN bitwise_not(combined) ELSE combined
    /\ UNCHANGED <<req, params, shape, edges, canvas, found, drawn, kq, palette, fb, seed>>
    /\ UNCHANGED rng

\* Image.fromarray(combined).save(buf, format='PNG'); send_file(buf, 'image/png')
Encode ==
    /\ pc = "encode"
    /\ ran' = Append(ran, "encode")
    /\ Return(PngFile(combined))
    /\ UNCHANGED <<req, raised>>
    /\ UNCHANGED rng

\* a working buffer of a pipeline stage cannot be allocated: the library
\* raises, and the handler's except clause answers
FaultStages == {"smooth", "edges", "quantize", "contours", "combine", "open",
                "dilate", "close", "fallback", "invert", "encode"}
StageFault ==
    /\ pc \in FaultStages
    /\ ran' = Append(ran, pc)
    /\ Raise("Failed to allocate")
    /\ UNCHANGED req
    /\ UNCHANGED rng

\* the response has been sent.  app.run(...): the development server starts
\* a new thread for every request, and a new thread has a newly created
\* generator
Finish ==
    /\ pc = "done"
    /\ pc' = "idle"
    /\ req' = NoRequest
    /\ ran' = <<>>
    /\ raised' = ""
    /\ responses' = <<>>
    /\ rng' = DefaultRNG
    /\ UNCHANGED <<params, shape, edges, canvas, combined, found, drawn, kq,
                   palette, fb, seed>>
\* the response has been sent by the app object served by a worker that keeps
\* its thread: the next request finds the generator as this one left it
FinishOnWorker ==
    /\ pc = "done"
    /\ pc' = "idle"
    /\ req' = NoRequest
    /\ ran' = <<>>
    /\ raised' = ""
    /\ responses' = <<>>
    /\ UNCHANGED <<params, shape, edges, canvas, combined, found, drawn, kq,
                   palette, fb, seed, rng>>


Next ==
    \/ Receive
    \/ Finish
    \/ CheckInput
    \/ ParseParams
    \/ Decode
    \/ Resize
    \/ Smooth
    \/ ExtractEdges
    \/ Quantize
    \/ DrawContours
    \/ Combine
    \/ Open
    \/ Dilate
    \/ Close
    \/ FallbackGuard
    \/ Invert
    \/ Encode
    \/ StageFault

Spec == Init /\ [][Next]_vars

\* the service behind a server whose worker threads outlive a request
WorkerNext == Next \/ FinishOnWorker
WorkerSpec == Init /\ [][WorkerNext]_vars

\* the steps of a handler call
Handle ==
    \/ CheckInput
    \/ ParseParams
    \/ Decode
    \/ Resize
    \/ Smooth
    \/ ExtractEdges
    \/ Quantize
    \/ DrawContours
    \/ Combine
    \/ Open
    \/ Dilate
    \/ Close
    \/ FallbackGuard
    \/ Invert
    \/ Encode

(* ============================== claims ================================ *)
\* the stages of each handler, in source order
AllStages(variant) ==
    IF variant = "xdog"
    THEN <<"parse", "decode", "resize", "smooth", "edges", "quantize", "contours",
           "combine", "open", "dilate", "close", "fallback", "invert", "encode">>
    ELSE <<"parse", "decode", "resize", "smooth", "edges", "quantize", "contours",
           "combine", "close", "invert", "encode">>
IsPrefix(s, t) == Len(s) <= Len(t) /\ \A i \in 1..Len(s) : s[i] = t[i]
LastRan == IF ran = <<>> THEN "" ELSE ran[Len(ran)]
IsPng(r) == r.status = 200 /\ r.mimetype = "image/png" /\ r.error = ""
IsJsonError(r) == r.mimetype = "application/json" /\ r.error # "" /\ r.image = NoImg
Ink(img) == {p \in DOMAIN img.fg : img.fg[p] = 0}
TwoLevel(img) == img.bg \in {0, 255} /\ \A p \in DOMAIN img.fg : img.fg[p] \in {0, 255}

\* C1: a request without an 'image' part, or whose image part has an empty
\* filename, is answered 400 with a JSON error and nothing is processed: no
\* form parameter is parsed, nothing is decoded, no stage runs, whatever the
\* other form fields hold.
C1_MissingInputRejected ==
    (~req.file.present \/ req.file.filename = <<>>) =>
        /\ pc \in {"idle", "check", "done"}
        /\ ran = <<>> /\ params = NoParams /\ shape = <<0, 0>> /\ raised = ""
        /\ pc = "done" =>
             /\ Len(responses) = 1
             /\ responses[1].status = 400
             /\ IsJsonError(responses[1])
\* an empty-filename upload with a non-integer form field has been answered
C1_Witness ==
    /\ pc = "done"
    /\ req.file.present /\ req.file.filename = <<>>
    /\ "bilateral_d" \in DOMAIN req.form
    /\ ~IntOf(req.form["bilateral_d"]).ok
    /\ Len(responses) = 1

\* C2: with every optional parameter left at its default, an upload of zero
\* bytes or of bytes that are no raster is answered with a 4xx JSON error,
\* never with a PNG and never with a 5xx.
C2_BadUploadIsClientError ==
    (/\ pc = "done"
     /\ req.file.present /\ req.file.filename # <<>>
     /\ req.file.kind \in {"empty", "garbage"}
     /\ req.form = NoForm) =>
        /\ Len(responses) = 1
        /\ responses[1].status \in 400..499
        /\ IsJsonError(responses[1])

\* at most one response, given exactly when the call is over; the stages run
\* once each and in source order; a PNG only after all of them; a raised
\* failure is answered 500 with its description and no image
C3_Safety ==
    /\ Len(responses) <= 1
    /\ (Len(responses) = 1) <=> (pc = "done")
    /\ IsPrefix(ran, AllStages(req.variant))
    /\ pc = "done" =>
         \/ /\ IsPng(responses[1])
            /\ raised = ""
            /\ ran = AllStages(req.variant)
            /\ responses[1].image.h >= 1 /\ responses[1].image.w >= 1
         \/ /\ IsJsonError(responses[1])
            /\ responses[1].status \in {400, 500}
            /\ ran # AllStages(req.variant) \/ raised # ""
    /\ raised # "" =>
         /\ pc = "done"
         /\ responses = <<[status |-> 500, mimetype |-> "application/json",
                           error |-> raised, image |-> NoImg]>>
\* a request being handled can always take its next step, and every step
\* either returns the response or completes one more stage of the list
C3_NotStuck == pc \notin {"idle", "done"} => ENABLED Handle
C3_Progress ==
    pc \notin {"idle", "done"} =>
        \/ pc' = "done" /\ Len(responses') = 1
        \/ pc = "check" /\ pc' = "parse"
        \/ pc' \notin {"idle", "done"} /\ Len(ran') = Len(ran) + 1
\* C3: every request ends with exactly one response, a PNG produced after all
\* stages ran once and in order, or an error; a failure raised in any stage
\* ends the request with a 500 JSON error carrying the failure description,
\* with no stage run again and no image bytes.
C3_OneTerminalResponse == [](C3_Safety /\ C3_NotStuck) /\ [][C3_Progress]_vars
\* a failure in the compositing stage has been answered
C3_Witness ==
    /\ pc = "done"
    /\ raised = "Failed to allocate"
    /\ LastRan = "combine"
    /\ responses = <<JsonError(500, "Failed to allocate")>>

\* the state right after combined = cv2.bitwise_and(canvas, edges)
AfterCombine == pc \in {"open", "close"} /\ LastRan = "combine"
\* every pixel is one of these or has the three background values
Probes == DOMAIN combined.fg \cup DOMAIN canvas.fg \cup DOMAIN edges.fg
\* C4 as stated: the combined pixel is ink only where both the canvas pixel
\* and the edge-map pixel are ink.
C4_InkOnlyWhereBoth ==
    AfterCombine =>
        /\ \A p \in Probes :
             Pix(combined, p) = 0 => (Pix(canvas, p) = 0 /\ Pix(edges, p) = 0)
        /\ combined.bg = 0 => (canvas.bg = 0 /\ edges.bg = 0)
\* C4 as amended: the pixel-wise AND of the two black-on-white images has ink
\* at a pixel exactly where at least one of the canvas and the edge map has
\* ink there (paper only where both are paper).
C4_InkWhereEither ==
    AfterCombine =>
        /\ \A p \in Probes :
             Pix(combined, p) = 0 <=> (Pix(canvas, p) = 0 \/ Pix(edges, p) = 0)
        /\ combined.bg = 0 <=> (canvas.bg = 0 \/ edges.bg = 0)
        /\ TwoLevel(combined)
\* the edge map alone puts ink into the combination
C4_Witness ==
    /\ AfterCombine
    /\ \E p \in Probes : Pix(edges, p) = 0 /\ Pix(canvas, p) = 255 /\ Pix(combined, p) = 0
    /\ \E p \in Probes : Pix(edges, p) = 255 /\ Pix(canvas, p) = 0 /\ Pix(combined, p) = 0

\* C5: from the edge map and the canvas onward, every image a handler holds
\* (edge map, canvas, combination, opening, dilation, closing, fallback
\* result) and the image it returns has only the values 0 and 255.
C5_TwoLevel ==
    /\ TwoLevel(edges)
    /\ TwoLevel(canvas)
    /\ TwoLevel(combined)
    /\ \A i \in 1..Len(responses) : TwoLevel(responses[i].image)
\* the fallback result holds ink and paper
C5_Witness ==
    /\ pc = "invert"
    /\ fb.taken
    /\ Ink(combined) # {}
    /\ combined.bg = 255

EqIgnoreCase(a, b) ==
    /\ Len(a) = Len(b)
    /\ \A i \in 1..Len(a) :
         \/ a[i] = b[i]
         \/ \E j \in 1..26 : {a[i], b[i]} = {UpperCase[j], LowerCase[j]}
C6_AsksInversion ==
    /\ "invert_colors" \in DOMAIN req.form
    /\ \E t \in {<<"1">>, <<"t", "r", "u", "e">>, <<"y", "e", "s">>, <<"y">>} :
         EqIgnoreCase(req.form["invert_colors"], t)
C6_Complement(a, b) ==
    /\ b.h = a.h /\ b.w = a.w
    /\ b.bg = 255 - a.bg
    /\ DOMAIN b.fg = DOMAIN a.fg
    /\ \A p \in DOMAIN a.fg : b.fg[p] = 255 - a.fg[p]
\* C6: with the same image, parameters and clustering result, invert_colors
\* = 1/true/yes/y in any letter case returns the per-pixel complement 255 - v
\* of the image returned without it; any other token returns the same image
\* as no invert_colors field.
C6_InvertIsComplement ==
    [][/\ (pc = "invert" /\ pc' = "encode") =>
            IF C6_AsksInversion THEN C6_Complement(combined, combined')
            ELSE combined' = combined
       /\ (pc = "encode" /\ pc' = "done" /\ raised' = "") =>
            responses' = <<PngFile(combined)>>]_vars
\* a capitalised True has inverted an image that holds ink
C6_Witness ==
    /\ pc = "done"
    /\ IsPng(responses[1])
    /\ "invert_colors" \in DOMAIN req.form
    /\ req.form["invert_colors"] = <<"T", "r", "u", "e">>
    /\ responses[1].image.bg = 0
    /\ DOMAIN responses[1].image.fg # {}

C7_Requested == IF req.variant = "xdog" THEN params["k_clusters"] ELSE params["k"]
\* C7: the cluster count given to the quantizer is the requested k_clusters
\* (k in Variant B) clamped to [2, 12], and the palette has that many entries.
C7_ClusterCountClamped ==
    kq # 0 =>
        /\ kq = (IF C7_Requested < 2 THEN 2
                 ELSE IF C7_Requested > 12 THEN 12 ELSE C7_Requested)
        /\ kq \in 2..12
        /\ palette = kq
\* k = 1 has run with two clusters
C7_Witness == pc = "contours" /\ C7_Requested = 1 /\ kq = 2 /\ palette = 2
\* k = 50 has run with twelve clusters
C7_WitnessHigh == pc = "contours" /\ C7_Requested = 50 /\ kq = 12 /\ palette = 12

C8_Bound == IF req.variant = "xdog" THEN FormInt(req.form, "resize_max").val ELSE 1200
C8_Decoded ==
    /\ req.file.present /\ req.file.filename # <<>> /\ req.file.kind = "image"
    /\ req.file.h >= 1 /\ req.file.w >= 1
    /\ \A i \in 1..Len(ParseOrder(req.variant)) :
         FormInt(req.form, ParseOrder(req.variant)[i]).ok
    /\ C8_Bound >= 1
C8_SizeOk(img) ==
    LET h == req.file.h
        w == req.file.w
        m == IF h >= w THEN h ELSE w
    IN IF m <= C8_Bound
       THEN img.h = h /\ img.w = w
       ELSE /\ img.h >= 1 /\ img.w >= 1
            /\ (IF h >= w THEN img.h ELSE img.w) = C8_Bound
            /\ img.h * m <= h * C8_Bound /\ h * C8_Bound < (img.h + 1) * m
            /\ img.w * m <= w * C8_Bound /\ w * C8_Bound < (img.w + 1) * m
\* C8: every decoded image of width and height >= 1, with any resize_max >= 1
\* (1200 in Variant B), gets an output image of the size of the preprocessed
\* image: the decoded size when max(w, h) <= bound, else the larger side equal
\* to the bound and the smaller side scaled by the same factor and >= 1.
\* (Requests in which a stage could not allocate are left out.)
C8_OutputHasPreprocessedSize ==
    (pc = "done" /\ C8_Decoded /\ raised # "Failed to allocate") =>
        /\ Len(responses) = 1
        /\ IsPng(responses[1])
        /\ C8_SizeOk(responses[1].image)

C9_MeanAbove250 == PixelSum(combined) > 250 * combined.h * combined.w
C9_IsFallbackOf(img, side) ==
    \E S \in SUBSET Window(shape[1], shape[2]) :
        img = dilate(bitwise_not(CannyOut(shape[1], shape[2], S)), side)
\* C9: in Variant A the image passed on by the FallbackGuard is the fallback
\* result exactly when the mean of the composited image is strictly above
\* 250; the fallback then uses the thresholds max(10, canny_low div 2) and
\* max(50, canny_high div 2) and a square element of side max(1,
\* line_thickness); otherwise the composited image is passed on unchanged.
C9_FallbackGuard ==
    [][(pc = "fallback" /\ pc' = "invert") =>
         LET lo == params["canny_low"]
             hi == params["canny_high"]
             lt == params["line_thickness"]
         IN /\ fb'.taken <=> C9_MeanAbove250
            /\ C9_MeanAbove250 =>
                 /\ fb'.low = (IF lo >= 20 THEN lo \div 2 ELSE 10)
                 /\ fb'.high = (IF hi >= 100 THEN hi \div 2 ELSE 50)
                 /\ fb'.side = (IF lt >= 1 THEN lt ELSE 1)
                 /\ C9_IsFallbackOf(combined', fb'.side)
            /\ ~C9_MeanAbove250 => combined' = combined /\ fb' = fb]_vars
\* the fallback, run with canny_low = 200, has produced an image with ink
C9_Witness ==
    /\ pc = "invert"
    /\ fb.taken
    /\ fb.low = 100
    /\ Ink(combined) # {}
\* a composited image whose mean is exactly 250 has been passed on
C9_WitnessKept ==
    /\ pc = "invert"
    /\ LastRan = "fallback"
    /\ ~fb.taken
    /\ PixelSum(combined) = 250 * combined.h * combined.w

C10_Areas == {0, 299, 300, 301, 500}
C10_DrawnWith(m) == {x \in found : KeepContour(x[2], m)}
C10_CanvasWith(m) == DrawAll(BlankCanvas(shape[1], shape[2]), C10_DrawnWith(m))
\* C10: for the contours found on one quantized proxy, raising min_area only
\* removes contours: for m1 <= m2 the contours drawn with m2 at each threshold
\* are among those drawn with m1, a contour being drawn exactly when its area
\* is strictly greater than min_area, so the canvas ink for m2 lies inside the
\* canvas ink for m1.
C10_MinAreaMonotonic ==
    (pc = "combine" /\ LastRan = "contours") =>
        /\ drawn = {x \in found : x[2].area2 > 2 * params["min_area"]}
        /\ Ink(canvas) = UNION {x[2].ink : x \in drawn}
        /\ \A m1 \in C10_Areas, m2 \in C10_Areas :
             m1 <= m2 =>
               /\ \A i \in 1..Len(Thresholds) :
                    {x \in C10_DrawnWith(m2) : x[1] = i}
                       \subseteq {x \in C10_DrawnWith(m1) : x[1] = i}
               /\ Ink(C10_CanvasWith(m2)) \subseteq Ink(C10_CanvasWith(m1))
\* a contour of area exactly 300 was found and not drawn at min_area = 300,
\* and is drawn at min_area = 299
C10_Witness ==
    /\ pc = "combine"
    /\ params["min_area"] = 300
    /\ found # {}
    /\ drawn = {}
    /\ C10_DrawnWith(299) = found

\* C11: the response to a request is determined only by that request's image
\* bytes and parameters, whatever requests ran before: no stage, the k-means
\* initialization included, reads or writes state that outlives the request.
\* The one input of a stage that is not taken from the request is the
\* generator state the clustering starts from, so the claim says that every
\* clustering starts from the state of a new generator.
C11_StatelessPipeline == seed # NoSeed => seed = DefaultRNG

\* the Dilate step of coloring_xdog with line_thickness > 1: every pixel that
\* is ink before it is ink after it
C12_DilateKeepsInk ==
    (pc = "dilate" /\ pc' = "close" /\ params["line_thickness"] > 1) =>
        /\ Ink(combined) \subseteq Ink(combined')
        /\ combined.bg = 0 => combined'.bg = 0
\* the Close step of coloring_xdog with line_thickness <= 1: no closing is
\* applied, the image goes on as it is
C12_CloseOnlyWhenThick ==
    (pc = "close" /\ pc' = "fallback" /\ params["line_thickness"] <= 1) =>
        combined' = combined
\* C12: in Variant A with line_thickness > 1 the dilation thickens the
\* strokes: every pixel that is ink (0) in the opened image is still ink
\* after the dilation, the ink set after it being a superset of the ink set
\* before it; the closing that follows is applied only when line_thickness > 1.
C12_DilationThickens == [][C12_DilateKeepsInk /\ C12_CloseOnlyWhenThick]_vars

====
